---- MODULE Spec2Model ----
(***************************************************************************)
(* Model of proxy_check_with_testspeed.py: the loader, the main thread,    *)
(* the thread pool and the per-proxy validator check_proxy with its shared *)
(* counters, lock, configuration and export file.                          *)
(*                                                                         *)
(* Strings are sequences of one-character strings.  Optional integers use  *)
(* None (-1) for Python's None; every measurement is >= 0.                 *)
(***************************************************************************)
EXTENDS Integers, Sequences, FiniteSets, TLC

(* ------------------------------ bounds -------------------------------- *)

\* lines read from the import files in one run (duplicates included)
MaxLines == 2

(* ------------------------- program constants -------------------------- *)

None == -1
\* DEFAULT_CONFIG["max_ms"]
max_ms == 5000
\* DEFAULT_CONFIG["speed_min_good_kbps"]
speed_min_good_kbps == 100
\* upper end of the open port range in check_proxy
PortLimit == 65536

(* ------------------------------ strings ------------------------------- *)

Digits == {"0", "1", "2", "3", "4", "5", "6", "7", "8", "9"}
Whitespace == {" "}
NL == "\n"

DigitVal(c) ==
  CASE c = "0" -> 0 [] c = "1" -> 1 [] c = "2" -> 2 [] c = "3" -> 3
    [] c = "4" -> 4 [] c = "5" -> 5 [] c = "6" -> 6 [] c = "7" -> 7
    [] c = "8" -> 8 [] c = "9" -> 9

\* str.strip(): drop leading and trailing whitespace
RECURSIVE strip(_)
strip(s) ==
  IF s = <<>> THEN s
  ELSE IF Head(s) \in Whitespace THEN strip(Tail(s))
  ELSE IF s[Len(s)] \in Whitespace THEN strip(SubSeq(s, 1, Len(s) - 1))
  ELSE s

\* ':' in s
HasColon(s) == \E k \in 1..Len(s) : s[k] = ":"

\* index of the first ':' of s (s has one)
FirstColon(s) == CHOOSE k \in 1..Len(s) : s[k] = ":" /\ \A j \in 1..(k - 1) : s[j] # ":"

\* proxy_str.split(':', 1): the two parts when s has a colon
split_host(s) == SubSeq(s, 1, FirstColon(s) - 1)
split_port(s) == SubSeq(s, FirstColon(s) + 1, Len(s))

\* str.isdigit()
isdigit(s) == s # <<>> /\ \A k \in 1..Len(s) : s[k] \in Digits

\* int(s) of a string of digits
RECURSIVE int(_)
int(s) == IF s = <<>> THEN 0 ELSE 10 * int(SubSeq(s, 1, Len(s) - 1)) + DigitVal(s[Len(s)])

\* mutant: the upper end of the port range taken inclusive
PortInRangeInclusive(n) == 0 < n /\ n <= PortLimit

\* the range test of the port, check_proxy line 203
PortInRange(n) == 0 < n /\ n < PortLimit

\* the format check of check_proxy, lines 201-208: "ok", or the message of
\* the diagnostic line printed before the early return
FormatCheckResult(s) ==
  IF ~HasColon(s) THEN "bad_format"
  ELSE IF ~isdigit(split_port(s)) \/ ~PortInRange(int(split_port(s))) THEN "bad_port"
  ELSE "ok"

(* --------------------------- sample inputs ---------------------------- *)

L_ok        == <<"h", ":", "8">>
L_ok_ws     == <<" ", "h", ":", "8", " ">>
L_private   == <<"1", "0", ".", "0", ".", "0", ".", "1", ":", "8">>
L_nohost    == <<":", "8">>
L_port0     == <<"h", ":", "0">>
L_portbig   == <<"h", ":", "6", "5", "5", "3", "6">>
L_portalpha == <<"h", ":", "x">>
L_nocolon   == <<"h">>
L_blank     == <<" ">>

\* the lines the import files of a run are made of: one of these sets
ImportSamples == {{L_ok, L_ok_ws, L_private},
                  {L_ok, L_port0, L_nocolon, L_blank},
                  {L_nohost, L_portbig, L_portalpha}}

\* hosts that ipaddress.ip_address() parses to a private or loopback address
PrivateHosts == {<<"1", "0", ".", "0", ".", "0", ".", "1">>}

\* mutant: no address is taken as private
NothingPrivate(ip_str) == FALSE

\* is_private_ip(): False for whatever does not parse as an address
is_private_ip(ip_str) == ip_str \in PrivateHosts

\* an address the IP echo service may report instead of the proxy's own
OtherIp == <<"9", ".", "9", ".", "9", ".", "9">>

\* what was in the export file before the run
StaleSink == <<"o", "l", "d", ":", "1", NL>>

\* values of config['thread']: one pool thread (the proxies are checked one
\* after the other) and two (they are checked concurrently)
ThreadSamples == {1, 2}

\* latencies a successful host check may measure
LatencySamples == {max_ms - 800, max_ms}
\* round trip times a successful ping may report
PingSamples == {12}
\* speeds a successful download may report
SpeedSamples == {speed_min_good_kbps}

(* ------------------------------- state -------------------------------- *)

VARIABLES
  main_pc,              \* position of the main thread
  config,               \* the loaded configuration (thread, enable flags)
  ping_installed,       \* whether the system has a ping command
  import_files,         \* the lines found in the files of config['import']
  loaded,               \* load_proxies: the set under construction, in insertion order
  file_lines,           \* load_proxies: the lines iterated over so far
  proxies,              \* the list returned by load_proxies
  proxies_length,       \* global proxies_length
  sink,                 \* content of the export file
  submitted,            \* tasks handed to the executor so far
  started,              \* tasks taken from the executor's queue so far
  lock,                 \* 0 when free, else the invocation holding it
  checked_count,        \* global checked_count
  good_proxies_count,   \* global good_proxies_count
  title,                \* the window title last written (the progress snapshot)
  pc,                   \* position of each check_proxy invocation
  frame,                \* local variables of each check_proxy invocation
  probes,               \* network probes each invocation has issued, with their outcomes
  diag,                 \* diagnostic lines printed for each invocation
  ping_reports,         \* "ping not found" lines printed
  write_reports,        \* invocations that printed an export write error
  summary               \* the final statistics printed, NoSummary before

vars == <<main_pc, config, ping_installed, import_files, loaded, file_lines, proxies,
          proxies_length, sink, submitted, started, lock, checked_count,
          good_proxies_count, title, pc, frame, probes, diag, ping_reports,
          write_reports, summary>>

main_vars   == <<main_pc, loaded, file_lines, proxies, proxies_length, submitted, summary>>
shared_vars == <<sink, lock, checked_count, good_proxies_count, title>>
out_vars    == <<diag, ping_reports, write_reports>>
env_vars    == <<ping_installed, import_files>>

NoSummary == [checked |-> None, good |-> None]
NoTitle   == [checked |-> None, total |-> None, good |-> None]

\* result_message: a failure reason, or the joined status parts
NoMessage == [reason |-> "", parts |-> <<>>]
Reason(r) == [reason |-> r, parts |-> <<>>]

\* locals of check_proxy at entry, lines 197-199 and 216-219
InitFrame ==
  [result_message |-> NoMessage, status_color |-> "RED", host_latency_ms |-> None,
   ping_result_ms |-> None, speed_result_kbps |-> None, is_good |-> FALSE, tmp |-> None]

Invocations == 1..Len(proxies)

proxy_str(i) == proxies[i]
proxy_ip(i)  == split_host(proxy_str(i))

Range(s) == {s[k] : k \in 1..Len(s)}

Init ==
  /\ main_pc = "load"
  /\ config \in [thread : ThreadSamples, enable_ping : BOOLEAN, enable_speed_test : BOOLEAN]
  /\ ping_installed \in BOOLEAN
  \* whether ping exists matters only to a run that has ping enabled
  /\ (config.enable_ping \/ ping_installed)
  /\ import_files \in ImportSamples
  /\ loaded = <<>>
  /\ file_lines = <<>>
  /\ proxies = <<>>
  /\ proxies_length = 0
  /\ sink \in {<<>>, StaleSink}
  /\ submitted = 0
  /\ started = 0
  /\ lock = 0
  /\ checked_count = 0
  /\ good_proxies_count = 0
  /\ title = NoTitle
  /\ pc = <<>>
  /\ frame = <<>>
  /\ probes = <<>>
  /\ diag = <<>>
  /\ ping_reports = 0
  /\ write_reports = {}
  /\ summary = NoSummary

(* ----------------------------- main thread ---------------------------- *)

\* mutant: the addresses collected in a list instead of a set
ListAdd(s, x) == Append(s, x)

\* proxies.add(cleaned_line) on a set, line 99
SetAdd(s, x) == IF x \in Range(s) THEN s ELSE Append(s, x)

\* the filter of load_proxies, line 98
AcceptLine(cleaned_line) == cleaned_line # <<>> /\ HasColon(cleaned_line)

\* one iteration of the loops of load_proxies, lines 92-99
ReadLine(line) ==
  /\ main_pc = "load"
  /\ Len(file_lines) < MaxLines
  /\ line \in import_files
  /\ file_lines' = Append(file_lines, line)
  /\ loaded' = IF AcceptLine(strip(line)) THEN SetAdd(loaded, strip(line)) ELSE loaded
  /\ UNCHANGED <<main_pc, proxies, proxies_length, submitted, summary>>
  /\ UNCHANGED <<config, env_vars, started, pc, frame, probes>>
  /\ UNCHANGED <<shared_vars, out_vars>>

\* the orders list(proxies) may give a set, line 104
ListOrders(s) ==
  {[k \in 1..Len(s) |-> s[f[k]]] :
     f \in {g \in [1..Len(s) -> 1..Len(s)] : \A a, b \in 1..Len(s) : a # b => g[a] # g[b]}}

\* return of load_proxies and lines 362-367
FinishLoad ==
  /\ main_pc = "load"
  /\ \E l \in ListOrders(loaded) :
       /\ proxies' = l
       /\ proxies_length' = Len(l)
       /\ pc' = [i \in 1..Len(l) |-> "pending"]
       /\ frame' = [i \in 1..Len(l) |-> InitFrame]
       /\ probes' = [i \in 1..Len(l) |-> <<>>]
       /\ diag' = [i \in 1..Len(l) |-> <<>>]
       /\ main_pc' = IF Len(l) = 0 THEN "exit_error" ELSE "prepare"
  /\ loaded' = <<>>
  /\ file_lines' = <<>>
  /\ UNCHANGED <<submitted, summary, config, env_vars, started>>
  /\ UNCHANGED <<shared_vars, ping_reports, write_reports>>

\* open(export_file, 'w'), lines 369-377
PrepareExport ==
  /\ main_pc = "prepare"
  /\ \E ok \in BOOLEAN :
       IF ok THEN sink' = <<>> /\ main_pc' = "submit"
             ELSE sink' = sink /\ main_pc' = "exit_error"
  /\ UNCHANGED <<loaded, file_lines, proxies, proxies_length, submitted, summary>>
  /\ UNCHANGED <<config, env_vars, started, pc, frame, probes>>
  /\ UNCHANGED <<lock, checked_count, good_proxies_count, title, out_vars>>

\* executor.submit(check_proxy, proxy, ...), line 388
Submit ==
  /\ main_pc = "submit"
  /\ submitted < Len(proxies)
  /\ submitted' = submitted + 1
  /\ UNCHANGED <<main_pc, loaded, file_lines, proxies, proxies_length, summary>>
  /\ UNCHANGED <<config, env_vars, started, pc, frame, probes>>
  /\ UNCHANGED <<shared_vars, out_vars>>

\* mutant: the executor is left without waiting for its tasks
PoolNotAwaited == TRUE

\* what executor.shutdown(wait=True) waits for, line 387 (exit of the with)
PoolDrained == \A i \in Invocations : pc[i] = "done"

\* exit of the with block, lines 387-392
Shutdown ==
  /\ main_pc = "submit"
  /\ submitted = Len(proxies)
  /\ PoolDrained
  /\ main_pc' = "summary"
  /\ UNCHANGED <<loaded, file_lines, proxies, proxies_length, submitted, summary>>
  /\ UNCHANGED <<config, env_vars, started, pc, frame, probes>>
  /\ UNCHANGED <<shared_vars, out_vars>>

\* the final statistics, lines 394-406
Summary ==
  /\ main_pc = "summary"
  /\ summary' = [checked |-> checked_count, good |-> good_proxies_count]
  /\ main_pc' = "done"
  /\ UNCHANGED <<loaded, file_lines, proxies, proxies_length, submitted>>
  /\ UNCHANGED <<config, env_vars, started, pc, frame, probes>>
  /\ UNCHANGED <<shared_vars, out_vars>>

(* --------------------------- check_proxy ------------------------------ *)

MainIdle == UNCHANGED main_vars

\* invocations a pool thread is running
Running == {i \in Invocations : pc[i] \notin {"pending", "done"}}

\* pc and locals of invocation i after a step
Goto(i, where, locals) ==
  /\ pc' = [pc EXCEPT ![i] = where]
  /\ frame' = [frame EXCEPT ![i] = locals]

\* a pool thread takes the next task of the queue and enters check_proxy,
\* lines 191-199 (ThreadPoolExecutor(max_workers=config['thread']), line 387)
Start(i) ==
  /\ pc[i] = "pending"
  /\ i = started + 1
  /\ i <= submitted
  /\ Cardinality(Running) < config.thread
  /\ started' = i
  /\ Goto(i, "format", InitFrame)
  /\ MainIdle
  /\ UNCHANGED <<config, env_vars, probes, shared_vars, out_vars>>

\* the line printed for this proxy: its colour and message
DiagLine(color, message) == [color |-> color, message |-> message]

\* mutant: the early return of the format check prints nothing
FormatCheckSilent(i) ==
  /\ pc[i] = "format"
  /\ diag' = diag
  /\ LET r == FormatCheckResult(proxy_str(i)) IN
       IF r # "ok"
         THEN Goto(i, "done", InitFrame)
         ELSE Goto(i, IF is_private_ip(proxy_ip(i)) THEN "latency" ELSE "anon", frame[i])
  /\ MainIdle
  /\ UNCHANGED <<config, env_vars, started, probes, shared_vars>>
  /\ UNCHANGED <<ping_reports, write_reports>>

\* lines 201-219: the format check, and the test of line 223
FormatCheck(i) ==
  /\ pc[i] = "format"
  /\ LET r == FormatCheckResult(proxy_str(i)) IN
       IF r # "ok"
         THEN /\ diag' = [diag EXCEPT ![i] = Append(@, DiagLine("RED", Reason(r)))]
              /\ Goto(i, "done", InitFrame)
         ELSE /\ diag' = diag
              /\ Goto(i, IF is_private_ip(proxy_ip(i)) THEN "latency" ELSE "anon", frame[i])
  /\ MainIdle
  /\ UNCHANGED <<config, env_vars, started, probes, shared_vars>>
  /\ UNCHANGED <<ping_reports, write_reports>>

\* a probe sent to the network and what came back
Probe(name, ok, value) == [probe |-> name, ok |-> ok, value |-> value]
Issue(i, name, ok, value) == probes' = [probes EXCEPT ![i] = Append(@, Probe(name, ok, value))]

\* the handler of lines 301-305, entered with result_message m
Failed(f, m) ==
  [f EXCEPT !.result_message = IF m = NoMessage THEN Reason("unexpected") ELSE m,
            !.status_color = "RED",
            !.is_good = FALSE]

\* the comparison of line 228
IpMatches(seen_ip, ip) == seen_ip = ip

\* lines 224-236: the IP check through the proxy
AnonymityProbe(i) ==
  /\ pc[i] = "anon"
  /\ \/ \E seen_ip \in {proxy_ip(i), OtherIp} :
          IF IpMatches(seen_ip, proxy_ip(i))
            THEN Issue(i, "anon", TRUE, None) /\ Goto(i, "latency", frame[i])
            ELSE /\ Issue(i, "anon", FALSE, None)
                 /\ Goto(i, "log", Failed(frame[i], Reason("ip_mismatch")))
     \/ /\ Issue(i, "anon", FALSE, None)
        /\ \/ \E r \in {"ip_timeout", "ip_error"} :
                Goto(i, "log", Failed(frame[i], Reason(r)))
           \/ Goto(i, "log", Failed(frame[i], frame[i].result_message))
  /\ MainIdle
  /\ UNCHANGED <<config, env_vars, started, shared_vars, out_vars>>

\* where line 263 leads
AfterPing == IF config.enable_speed_test THEN "speed" ELSE "aggregate"

\* mutant: an exception no handler names leaves check_proxy uncaught
LatencyProbeUncaught(i) ==
  /\ pc[i] = "latency"
  /\ \/ \E ms \in LatencySamples :
          /\ Issue(i, "latency", TRUE, ms)
          /\ Goto(i, IF config.enable_ping THEN "ping" ELSE AfterPing,
                  [frame[i] EXCEPT !.host_latency_ms = ms, !.is_good = TRUE])
     \/ /\ Issue(i, "latency", FALSE, None)
        /\ \/ \E r \in {"host_timeout", "host_error"} :
                Goto(i, "log", Failed(frame[i], Reason(r)))
           \/ Goto(i, "done", InitFrame)
  /\ MainIdle
  /\ UNCHANGED <<config, env_vars, started, shared_vars, out_vars>>

\* lines 239-259: the host check, is_good and the test of enable_ping
LatencyProbe(i) ==
  /\ pc[i] = "latency"
  /\ \/ \E ms \in LatencySamples :
          /\ Issue(i, "latency", TRUE, ms)
          /\ Goto(i, IF config.enable_ping THEN "ping" ELSE AfterPing,
                  [frame[i] EXCEPT !.host_latency_ms = ms, !.is_good = TRUE])
     \/ /\ Issue(i, "latency", FALSE, None)
        /\ \/ \E r \in {"host_timeout", "host_error"} :
                Goto(i, "log", Failed(frame[i], Reason(r)))
           \/ Goto(i, "log", Failed(frame[i], frame[i].result_message))
  /\ MainIdle
  /\ UNCHANGED <<config, env_vars, started, shared_vars, out_vars>>

\* mutant: the handler of the missing ping tool turns the speed test off too
PingProbeDisablesAll(i) ==
  /\ pc[i] = "ping"
  /\ IF ~ping_installed
       THEN /\ Issue(i, "ping", FALSE, None)
            /\ ping_reports' = ping_reports + 1
            /\ config' = [config EXCEPT !.enable_ping = FALSE, !.enable_speed_test = FALSE]
            /\ Goto(i, AfterPing, [frame[i] EXCEPT !.ping_result_ms = None])
       ELSE /\ UNCHANGED <<ping_reports, config>>
            /\ \E ms \in PingSamples \cup {None} :
                 /\ Issue(i, "ping", ms # None, ms)
                 /\ Goto(i, AfterPing, [frame[i] EXCEPT !.ping_result_ms = ms])
  /\ MainIdle
  /\ UNCHANGED <<env_vars, started, shared_vars, diag, write_reports>>

\* line 260 and ping_host, lines 114-160
PingProbe(i) ==
  /\ pc[i] = "ping"
  /\ IF ~ping_installed
       THEN /\ Issue(i, "ping", FALSE, None)
            /\ ping_reports' = ping_reports + 1
            /\ config' = [config EXCEPT !.enable_ping = FALSE]
            /\ Goto(i, AfterPing, [frame[i] EXCEPT !.ping_result_ms = None])
       ELSE /\ UNCHANGED <<ping_reports, config>>
            /\ \E ms \in PingSamples \cup {None} :
                 /\ Issue(i, "ping", ms # None, ms)
                 /\ Goto(i, AfterPing, [frame[i] EXCEPT !.ping_result_ms = ms])
  /\ MainIdle
  /\ UNCHANGED <<env_vars, started, shared_vars, diag, write_reports>>

\* lines 264-265 and test_download_speed, lines 162-189
SpeedProbe(i) ==
  /\ pc[i] = "speed"
  /\ \E kbps \in SpeedSamples \cup {None} :
       /\ Issue(i, "speed", kbps # None, kbps)
       /\ Goto(i, "aggregate", [frame[i] EXCEPT !.speed_result_kbps = kbps])
  /\ MainIdle
  /\ UNCHANGED <<config, env_vars, started, shared_vars, out_vars>>

\* mutant: the comparison of the threshold reversed
PassesThresholdReversed(host_latency_ms) == host_latency_ms > max_ms

\* mutant: the threshold taken inclusive
PassesThresholdInclusive(host_latency_ms) == host_latency_ms <= max_ms

\* the pass criterion, line 270
PassesThreshold(host_latency_ms) == host_latency_ms < max_ms

Part(field, value, color) == [field |-> field, value |-> value, color |-> color]

\* lines 269-275
LatencyParts(f) ==
  IF f.host_latency_ms # None
    THEN <<Part("latency", f.host_latency_ms,
                IF PassesThreshold(f.host_latency_ms) THEN "GREEN" ELSE "YELLOW")>>
    ELSE <<>>

\* lines 277-280
PingParts(f) ==
  IF f.ping_result_ms # None THEN <<Part("ping", f.ping_result_ms, "")>>
  ELSE IF config.enable_ping THEN <<Part("ping", None, "YELLOW")>>
  ELSE <<>>

\* lines 282-286
SpeedParts(f) ==
  IF f.speed_result_kbps # None
    THEN <<Part("speed", f.speed_result_kbps,
                IF f.speed_result_kbps >= speed_min_good_kbps THEN "GREEN" ELSE "YELLOW")>>
  ELSE IF config.enable_speed_test THEN <<Part("speed", None, "YELLOW")>>
  ELSE <<>>

\* mutant: a proxy without a ping result is not classified as a pass
StatusColorNeedsPing(f) ==
  IF f.host_latency_ms = None THEN f.status_color
  ELSE IF PassesThreshold(f.host_latency_ms) /\ f.ping_result_ms # None THEN "GREEN" ELSE "YELLOW"

\* status_color after lines 269-275
StatusColor(f) ==
  IF f.host_latency_ms = None THEN f.status_color
  ELSE IF PassesThreshold(f.host_latency_ms) THEN "GREEN" ELSE "YELLOW"

\* lines 268-291: the status message, the colour and the decision to export
Aggregate(i) ==
  /\ pc[i] = "aggregate"
  /\ LET f == frame[i]
         msg == [reason |-> "", parts |-> LatencyParts(f) \o PingParts(f) \o SpeedParts(f)]
         color == StatusColor(f)
     IN Goto(i, IF color = "GREEN" THEN "acquire_w" ELSE "log",
             [f EXCEPT !.result_message = msg, !.status_color = color])
  /\ MainIdle
  /\ UNCHANGED <<config, env_vars, started, probes, shared_vars, out_vars>>

\* mutant: the sections are entered without waiting for the lock
LockNeverWaits == TRUE

\* threading.Lock: acquire blocks while the lock is held, lines 53, 292, 312
LockFree == lock = 0

\* with lock:, line 292
AcquireWrite(i) ==
  /\ pc[i] = "acquire_w"
  /\ LockFree
  /\ lock' = i
  /\ Goto(i, "append", frame[i])
  /\ MainIdle
  /\ UNCHANGED <<config, env_vars, started, probes, out_vars>>
  /\ UNCHANGED <<sink, checked_count, good_proxies_count, title>>

\* the line appended to the export file, line 295
ExportLine(i) == Append(proxy_str(i), NL)

\* mutant: the IOError handler is left with the lock still held
AppendExportKeepsLock(i) ==
  /\ pc[i] = "append"
  /\ \/ /\ sink' = sink \o ExportLine(i)
        /\ Goto(i, "good_read", frame[i])
        /\ UNCHANGED <<lock, write_reports>>
     \/ /\ write_reports' = write_reports \cup {i}
        /\ Goto(i, "log", frame[i])
        /\ UNCHANGED <<lock, sink>>
  /\ MainIdle
  /\ UNCHANGED <<config, env_vars, started, probes, diag, ping_reports>>
  /\ UNCHANGED <<checked_count, good_proxies_count, title>>

\* mutant: the IOError handler falls through to the increment of line 296
AppendExportFailureCounted(i) ==
  /\ pc[i] = "append"
  /\ \/ /\ sink' = sink \o ExportLine(i)
        /\ Goto(i, "good_read", frame[i])
        /\ UNCHANGED <<lock, write_reports>>
     \/ /\ write_reports' = write_reports \cup {i}
        /\ Goto(i, "good_read", frame[i])
        /\ UNCHANGED <<lock, sink>>
  /\ MainIdle
  /\ UNCHANGED <<config, env_vars, started, probes, diag, ping_reports>>
  /\ UNCHANGED <<checked_count, good_proxies_count, title>>

\* lines 293-295 and 297-298: the append, or the IOError report (which leaves
\* the with block and releases the lock)
AppendExport(i) ==
  /\ pc[i] = "append"
  /\ \/ /\ sink' = sink \o ExportLine(i)
        /\ Goto(i, "good_read", frame[i])
        /\ UNCHANGED <<lock, write_reports>>
     \/ /\ write_reports' = write_reports \cup {i}
        /\ lock' = 0
        /\ Goto(i, "log", frame[i])
        /\ UNCHANGED sink
  /\ MainIdle
  /\ UNCHANGED <<config, env_vars, started, probes, diag, ping_reports>>
  /\ UNCHANGED <<checked_count, good_proxies_count, title>>

\* line 296, the load of good_proxies_count
GoodRead(i) ==
  /\ pc[i] = "good_read"
  /\ Goto(i, "good_write", [frame[i] EXCEPT !.tmp = good_proxies_count])
  /\ MainIdle
  /\ UNCHANGED <<config, env_vars, started, probes, shared_vars, out_vars>>

\* line 296, the store of good_proxies_count, and the end of with lock:
GoodWrite(i) ==
  /\ pc[i] = "good_write"
  /\ good_proxies_count' = frame[i].tmp + 1
  /\ lock' = 0
  /\ Goto(i, "log", [frame[i] EXCEPT !.tmp = None])
  /\ MainIdle
  /\ UNCHANGED <<config, env_vars, started, probes, out_vars>>
  /\ UNCHANGED <<sink, checked_count, title>>

\* line 309: the diagnostic line of the finally block
Log(i) ==
  /\ pc[i] = "log"
  /\ diag' = [diag EXCEPT ![i] =
                Append(@, DiagLine(frame[i].status_color, frame[i].result_message))]
  /\ Goto(i, "acquire_c", frame[i])
  /\ MainIdle
  /\ UNCHANGED <<config, env_vars, started, probes, shared_vars>>
  /\ UNCHANGED <<ping_reports, write_reports>>

\* mutant: the finally block counts without taking the lock
AcquireCountUnlocked(i) ==
  /\ pc[i] = "acquire_c"
  /\ Goto(i, "checked_read", frame[i])
  /\ MainIdle
  /\ UNCHANGED <<config, env_vars, started, probes, out_vars>>
  /\ UNCHANGED <<sink, lock, checked_count, good_proxies_count, title>>

\* with lock:, line 312
AcquireCount(i) ==
  /\ pc[i] = "acquire_c"
  /\ LockFree
  /\ lock' = i
  /\ Goto(i, "checked_read", frame[i])
  /\ MainIdle
  /\ UNCHANGED <<config, env_vars, started, probes, out_vars>>
  /\ UNCHANGED <<sink, checked_count, good_proxies_count, title>>

\* line 313, the load of checked_count
CheckedRead(i) ==
  /\ pc[i] = "checked_read"
  /\ Goto(i, "checked_write", [frame[i] EXCEPT !.tmp = checked_count])
  /\ MainIdle
  /\ UNCHANGED <<config, env_vars, started, probes, shared_vars, out_vars>>

\* the title of line 315
Snapshot(checked, total, good) == [checked |-> checked, total |-> total, good |-> good]

\* line 313, the store of checked_count; lines 315-317, the title; the end of
\* with lock: and the return
CheckedWrite(i) ==
  /\ pc[i] = "checked_write"
  /\ checked_count' = frame[i].tmp + 1
  /\ title' = Snapshot(checked_count', proxies_length, good_proxies_count)
  /\ lock' = 0
  /\ Goto(i, "done", InitFrame)
  /\ MainIdle
  /\ UNCHANGED <<config, env_vars, started, probes, out_vars>>
  /\ UNCHANGED <<sink, good_proxies_count>>

\* the steps of one check_proxy invocation
Validator(i) ==
  \/ Start(i)
  \/ FormatCheck(i)
  \/ AnonymityProbe(i)
  \/ LatencyProbe(i)
  \/ PingProbe(i)
  \/ SpeedProbe(i)
  \/ Aggregate(i)
  \/ AcquireWrite(i)
  \/ AppendExport(i)
  \/ GoodRead(i)
  \/ GoodWrite(i)
  \/ Log(i)
  \/ AcquireCount(i)
  \/ CheckedRead(i)
  \/ CheckedWrite(i)

\* the steps of the main thread
Main ==
  \/ \E line \in UNION ImportSamples : ReadLine(line)
  \/ FinishLoad
  \/ PrepareExport
  \/ Submit
  \/ Shutdown
  \/ Summary

Next ==
  \/ \E line \in UNION ImportSamples : ReadLine(line)
  \/ FinishLoad
  \/ PrepareExport
  \/ Submit
  \/ Shutdown
  \/ Summary
  \/ \E i \in Invocations : Start(i)
  \/ \E i \in Invocations : FormatCheck(i)
  \/ \E i \in Invocations : AnonymityProbe(i)
  \/ \E i \in Invocations : LatencyProbe(i)
  \/ \E i \in Invocations : PingProbe(i)
  \/ \E i \in Invocations : SpeedProbe(i)
  \/ \E i \in Invocations : Aggregate(i)
  \/ \E i \in Invocations : AcquireWrite(i)
  \/ \E i \in Invocations : AppendExport(i)
  \/ \E i \in Invocations : GoodRead(i)
  \/ \E i \in Invocations : GoodWrite(i)
  \/ \E i \in Invocations : Log(i)
  \/ \E i \in Invocations : AcquireCount(i)
  \/ \E i \in Invocations : CheckedRead(i)
  \/ \E i \in Invocations : CheckedWrite(i)

Spec == Init /\ [][Next]_vars

\* the threads keep running: as long as some thread can take a step, a step
\* is taken (every probe returns, the operating system schedules the threads)
FairSpec == Spec /\ WF_vars(Next)

(* ------------------------- notions of the claims ---------------------- *)

\* the export file has been opened (truncated) by this run
SinkPrepared == main_pc \in {"submit", "summary", "done"}

\* the pool has drained: the with block of the executor has been left
Drained == main_pc \in {"summary", "done"}

HasNL(s) == \E k \in 1..Len(s) : s[k] = NL
FirstNL(s) == CHOOSE k \in 1..Len(s) : s[k] = NL /\ \A j \in 1..(k - 1) : s[j] # NL

\* the complete lines of a file content, without their newline
RECURSIVE LinesOf(_)
LinesOf(s) ==
  IF ~HasNL(s) THEN <<>>
  ELSE <<SubSeq(s, 1, FirstNL(s) - 1)>> \o LinesOf(SubSeq(s, FirstNL(s) + 1, Len(s)))

\* what follows the last newline of a file content
RECURSIVE Unterminated(_)
Unterminated(s) == IF ~HasNL(s) THEN s ELSE Unterminated(SubSeq(s, FirstNL(s) + 1, Len(s)))

\* the address of invocation i is a line of the export file
InSink(i) == \E k \in 1..Len(LinesOf(sink)) : LinesOf(sink)[k] = proxy_str(i)

\* malformed as the specification defines it: no host:port split, or a port
\* that is not a number of the open range (0, 65536)
Malformed(s) ==
  \/ ~HasColon(s)
  \/ \E k \in 1..Len(split_port(s)) : split_port(s)[k] \notin Digits
  \/ split_port(s) = <<>>
  \/ int(split_port(s)) <= 0
  \/ int(split_port(s)) >= PortLimit

\* outcomes of the probes of invocation i, from the record of its probes
AnonFailed(i)    == \E k \in 1..Len(probes[i]) : probes[i][k].probe = "anon" /\ ~probes[i][k].ok
LatencyFailed(i) == \E k \in 1..Len(probes[i]) : probes[i][k].probe = "latency" /\ ~probes[i][k].ok
LatencyBelow(i)  ==
  \E k \in 1..Len(probes[i]) :
    /\ probes[i][k].probe = "latency"
    /\ probes[i][k].ok
    /\ probes[i][k].value < max_ms
LatencyAtLeast(i)  ==
  \E k \in 1..Len(probes[i]) :
    /\ probes[i][k].probe = "latency"
    /\ probes[i][k].ok
    /\ probes[i][k].value >= max_ms

\* the proxy of invocation i qualifies for the export file
Qualifies(i) == ~Malformed(proxy_str(i)) /\ ~AnonFailed(i) /\ LatencyBelow(i)

(* ------------------------------- claims ------------------------------- *)

\* C1: once the export file has been opened by the run, every line of it is
\* the address of a proxy whose anonymity probe did not fail and whose latency
\* probe measured less than max_ms; no proxy that is malformed, failed a probe
\* or measured max_ms or more has its address in the file.
C1_SinkOnlyQualified ==
  SinkPrepared =>
    /\ \A k \in 1..Len(LinesOf(sink)) :
         \E i \in Invocations : proxy_str(i) = LinesOf(sink)[k] /\ Qualifies(i)
    /\ \A i \in Invocations : ~Qualifies(i) => ~InSink(i)

\* C1 witness: a proxy is in the file while another one, measured at exactly
\* max_ms, has finished without being written.
C1_Witness ==
  /\ SinkPrepared
  /\ \E i, j \in Invocations :
       /\ InSink(i)
       /\ pc[j] = "done"
       /\ LatencyAtLeast(j)
       /\ ~InSink(j)

\* C2: every published progress snapshot (checked_count, total, good_count)
\* satisfies good_count <= checked_count <= total.  (The statement for the
\* counters themselves fails as well: good_proxies_count is incremented in
\* the export section, before the finally block counts the proxy.)
C2_SnapshotsOrdered ==
  title # NoTitle => (title.good <= title.checked /\ title.checked <= title.total)

\* invocations whose address passed the format check and that have returned
CountedValid == {i \in Invocations : ~Malformed(proxy_str(i)) /\ pc[i] = "done"}

\* C3: checked_count is the number of invocations with a well-formed address
\* that have completed, in every state and for every worker count: each such
\* invocation adds exactly one whatever its outcome, and no increment is
\* lost; so once the pool has drained checked_count is the number of
\* dispatched proxies with a well-formed address.
C3_CheckedCountsValid ==
  /\ checked_count = Cardinality(CountedValid)
  /\ Drained =>
       checked_count = Cardinality({i \in Invocations : ~Malformed(proxy_str(i))})

\* C3 witness: two workers, the pool drained, two proxies counted, one of
\* them exported and the other one failed.
C3_Witness ==
  /\ Drained
  /\ config.thread >= 2
  /\ checked_count = 2
  /\ \E i, j \in Invocations :
       /\ InSink(i)
       /\ diag[j] # <<>>
       /\ diag[j][1].color = "RED"
       /\ diag[j][1].message.reason \in {"unexpected", "host_timeout", "ip_mismatch"}

\* C4: an invocation with a malformed address issues no probe and never
\* enters the counting section; lines without a colon are not dispatched at
\* all; and an invocation returns without incrementing checked_count exactly
\* when its address is malformed.
C4_MalformedNeverProbed ==
  /\ [](\A i \in Invocations :
          /\ HasColon(proxy_str(i))
          /\ Malformed(proxy_str(i)) =>
               (probes[i] = <<>> /\ pc[i] \in {"pending", "format", "done"}))
  /\ [][\A i \in Invocations :
          (pc[i] # "done" /\ pc'[i] = "done") =>
            IF Malformed(proxy_str(i))
              THEN checked_count' = checked_count
              ELSE checked_count' = checked_count + 1]_vars

\* C4 witness: a malformed address has been handled and another proxy has
\* been counted.
C4_Witness ==
  /\ Drained
  /\ checked_count >= 1
  /\ \E i \in Invocations :
       /\ Malformed(proxy_str(i))
       /\ pc[i] = "done"
       /\ diag[i] # <<>>

\* positions of check_proxy after the export section, and after its append
AfterExport == {"log", "acquire_c", "checked_read", "checked_write", "done"}
AfterAppend == {"good_read", "good_write"} \cup AfterExport

\* invocations that went through the export section without a write error
Exported == {i \in Invocations : Qualifies(i) /\ i \notin write_reports /\ pc[i] \in AfterExport}

\* C5: a proxy whose anonymity probe matched or was skipped and whose latency
\* is below max_ms is in the export file from its successful append on, so
\* once the pool has drained, and it adds exactly one to good_count; a proxy
\* whose latency probe failed is never in the file, adds nothing to
\* good_count and is counted in checked_count when it returns.
C5_PassExportedTimeoutNot ==
  /\ \A i \in Invocations :
       (Qualifies(i) /\ i \notin write_reports /\ pc[i] \in AfterAppend) => InSink(i)
  /\ Drained => \A i \in Invocations : (Qualifies(i) /\ i \notin write_reports) => InSink(i)
  /\ good_proxies_count = Cardinality(Exported)
  /\ \A i \in Invocations :
       LatencyFailed(i) =>
         /\ ~InSink(i)
         /\ i \notin Exported
         /\ pc[i] \in {"log", "acquire_c", "checked_read", "checked_write", "done"}
         /\ pc[i] = "done" => checked_count >= 1

\* C5 witness: the pool has drained; one proxy matched the anonymity probe,
\* measured 4200 ms and is in the file, good_count is 1; another one timed
\* out on the latency probe and both are counted.
C5_Witness ==
  /\ Drained
  /\ good_proxies_count = 1
  /\ checked_count = 2
  /\ \E i, j \in Invocations :
       /\ probes[i][1] = Probe("anon", TRUE, None)
       /\ probes[i][2] = Probe("latency", TRUE, max_ms - 800)
       /\ InSink(i)
       /\ LatencyFailed(j)
       /\ diag[j][1].message.reason = "host_timeout"

\* C6: the counters read for the final summary, after the pool has drained,
\* satisfy good_count <= checked_count <= total.
C6_SummaryOrdered ==
  /\ main_pc = "summary" =>
       (good_proxies_count <= checked_count /\ checked_count <= proxies_length)
  /\ summary # NoSummary =>
       (summary.good <= summary.checked /\ summary.checked <= proxies_length)

\* C6 witness: a summary with one good proxy out of two checked.
C6_Witness ==
  /\ summary # NoSummary
  /\ summary.good = 1
  /\ summary.checked = 2

\* invocations inside the export section of lines 292-298
InExportSection == {i \in Invocations : pc[i] \in {"append", "good_read", "good_write"}}

\* C7: at most one invocation is inside the export section, and it holds the
\* lock; the export file is a sequence of complete lines, each the address of
\* a dispatched proxy.
C7_AppendsExclusive ==
  /\ Cardinality(InExportSection) <= 1
  /\ \A i \in InExportSection : lock = i
  /\ SinkPrepared =>
       /\ Unterminated(sink) = <<>>
       /\ \A k \in 1..Len(LinesOf(sink)) :
            \E i \in Invocations : LinesOf(sink)[k] = proxy_str(i)

\* C7 witness: one invocation has appended its line and is still inside the
\* section while another one waits to enter it.
C7_Witness ==
  \E i, j \in Invocations :
    /\ pc[i] = "good_read"
    /\ InSink(i)
    /\ pc[j] = "acquire_w"

NoDup(s) == \A a, b \in 1..Len(s) : a # b => s[a] # s[b]

\* C8: every address read from the import files is held exactly once by the
\* loader however often it occurs, the dispatched list is that set, no
\* invocation is started twice, and no address occurs twice in the export
\* file.
C8_DispatchedOnce ==
  /\ [](/\ NoDup(loaded)
        /\ NoDup(proxies)
        /\ SinkPrepared => NoDup(LinesOf(sink))
        /\ \A k \in 1..Len(file_lines) :
             (strip(file_lines[k]) # <<>> /\ HasColon(strip(file_lines[k]))) =>
               \E a \in 1..Len(loaded) : loaded[a] = strip(file_lines[k]))
  /\ [][(main_pc = "load" /\ main_pc' # "load") =>
          (Range(proxies') = Range(loaded) /\ Len(proxies') = Cardinality(Range(loaded)))]_vars
  /\ [][\A i \in Invocations :
          /\ pc[i] = "done" => pc'[i] = "done"
          /\ pc[i] # "pending" => pc'[i] # "pending"
          /\ (pc'[i] = "format" /\ pc[i] # "format") => pc[i] = "pending"]_vars

\* C8 witness: the same address has been read twice (once with surrounding
\* whitespace) and is held once.
C8_Witness ==
  /\ main_pc = "load"
  /\ file_lines = <<L_ok, L_ok_ws>>
  /\ loaded = <<L_ok>>

\* C9: no invocation prints more than one diagnostic line; it has printed
\* its line exactly when it has passed the print of its path, and once the
\* pool has drained every dispatched proxy has exactly one.
C9_OneDiagnosticLine ==
  /\ \A i \in Invocations :
       /\ Len(diag[i]) <= 1
       /\ Len(diag[i]) = 1 <=> pc[i] \in {"acquire_c", "checked_read", "checked_write", "done"}
  /\ Drained => \A i \in Invocations : Len(diag[i]) = 1

\* C9 witness: the pool has drained after a malformed address and a pass
\* whose export write failed.
C9_Witness ==
  /\ Drained
  /\ \E i, j \in Invocations :
       /\ Malformed(proxy_str(i))
       /\ Len(diag[i]) = 1
       /\ j \in write_reports
       /\ Len(diag[j]) = 1
       /\ diag[j][1].color = "GREEN"

\* C10 as claimed: a run with a non-empty proxy list that has stopped has
\* produced the final summary.
C10_AsClaimed ==
  (proxies_length > 0 /\ main_pc \in {"done", "exit_error"}) => summary # NoSummary

\* C10: with fair scheduling, a run with a non-empty proxy list whose export
\* file could be opened reaches the final summary, whatever its proxies do
\* and with one worker or more; a run is given up only before the pool
\* starts; and the summary is read only after every dispatched invocation
\* has returned.
C10_RunCompletes ==
  /\ (main_pc = "submit") ~> (main_pc = "done" /\ summary # NoSummary)
  /\ [][main_pc' = "exit_error" => main_pc \in {"load", "prepare", "exit_error"}]_vars
  /\ []((main_pc \in {"summary", "done"}) =>
          (submitted = Len(proxies) /\ \A i \in Invocations : pc[i] = "done"))
  /\ [](main_pc = "submit" => proxies_length > 0)

\* C10 witness: a run of two workers has finished with one proxy exported and
\* another one failed.
C10_Witness ==
  /\ main_pc = "done"
  /\ summary # NoSummary
  /\ config.thread >= 2
  /\ \E i, j \in Invocations : InSink(i) /\ (AnonFailed(j) \/ LatencyFailed(j))

\* the address has a colon and nothing before it
EmptyHost(s) == HasColon(s) /\ FirstColon(s) = 1

\* C11: an address with an empty host part is rejected by the format check:
\* its invocation issues no probe, never goes past the format check and adds
\* nothing to checked_count.
C11_EmptyHostRejected ==
  \A i \in Invocations :
    EmptyHost(proxy_str(i)) =>
      /\ probes[i] = <<>>
      /\ pc[i] \in {"pending", "format", "done"}
      /\ pc[i] = "done" => checked_count = Cardinality(CountedValid \ {i})

\* the probe of that name invocation i has issued, if any
Attempted(i, name) == \E k \in 1..Len(probes[i]) : probes[i][k].probe = name
ProbeOf(i, name) == probes[i][CHOOSE k \in 1..Len(probes[i]) : probes[i][k].probe = name]

\* invocation i went through aggregation and has printed its line
Aggregated(i) == Len(diag[i]) = 1 /\ diag[i][1].message.reason = ""

\* the field of that name in the diagnostic line of invocation i, if any
HasField(i, name) ==
  \E k \in 1..Len(diag[i][1].message.parts) : diag[i][1].message.parts[k].field = name
FieldOf(i, name) ==
  diag[i][1].message.parts[CHOOSE k \in 1..Len(diag[i][1].message.parts) :
                             diag[i][1].message.parts[k].field = name]

\* C12: the diagnostic line of a proxy that reached aggregation has a ping
\* field exactly when its ping probe was attempted, holding the measured
\* value or "not available" (None) when the attempt failed, the ping tool
\* missing included; likewise for the throughput field.
C12_FieldsMatchAttempts ==
  \A i \in Invocations :
    Aggregated(i) =>
      \A name \in {"ping", "speed"} :
        /\ HasField(i, name) <=> Attempted(i, name)
        /\ Attempted(i, name) =>
             FieldOf(i, name).value = (IF ProbeOf(i, name).ok THEN ProbeOf(i, name).value ELSE None)

\* what the anonymity and latency probes of invocation i returned, the ping
\* and throughput probes left out
BaseOutcome(i) == <<AnonFailed(i), SelectSeq(probes[i], LAMBDA p : p.probe = "latency")>>

\* the pass/fail decision as the anonymity and latency outcomes alone give it
PassByProbes(i) == ~AnonFailed(i) /\ LatencyBelow(i)

\* invocation i went into the export section (its append worked or failed)
WriteTried(i) == InSink(i) \/ i \in write_reports

\* C13: the decision of an invocation is a function of its anonymity and
\* latency outcomes alone: a proxy that has printed its line is classified
\* pass, and goes to the export file, exactly when those two outcomes say so,
\* whatever its ping and throughput probes did (value, failure, tool missing,
\* disabled); two completed invocations with the same anonymity and latency
\* outcomes have the same classification and the same write, good_count
\* counts exactly the passes whose append worked, and checked_count every
\* completed invocation that passed the format check.
C13_PingSpeedNoInfluence ==
  /\ \A i \in Invocations :
       (Len(diag[i]) = 1 /\ ~Malformed(proxy_str(i))) =>
         /\ (diag[i][1].color = "GREEN") <=> PassByProbes(i)
         /\ SinkPrepared => (WriteTried(i) <=> PassByProbes(i))
  /\ \A i, j \in Invocations :
       (pc[i] = "done" /\ pc[j] = "done" /\ BaseOutcome(i) = BaseOutcome(j)) =>
         /\ diag[i][1].color = diag[j][1].color
         /\ WriteTried(i) <=> WriteTried(j)
  /\ good_proxies_count =
       Cardinality({i \in Invocations :
                      PassByProbes(i) /\ i \notin write_reports /\ pc[i] \in AfterExport})
  /\ checked_count =
       Cardinality({i \in Invocations : pc[i] = "done" /\ probes[i] # <<>>})

\* C13 witness: two proxies measured the same latency and are both in the
\* export file; the ping of one succeeded, the other one has no successful
\* ping (it failed, the tool is missing, or ping was disabled by then).
C13_Witness ==
  \E i, j \in Invocations :
    /\ pc[i] = "done" /\ pc[j] = "done"
    /\ BaseOutcome(i) = BaseOutcome(j)
    /\ LatencyBelow(i)
    /\ Attempted(i, "ping") /\ ProbeOf(i, "ping").ok
    /\ ~(Attempted(j, "ping") /\ ProbeOf(j, "ping").ok)
    /\ Attempted(i, "speed") /\ Attempted(j, "speed")
    /\ ProbeOf(i, "speed").ok # ProbeOf(j, "speed").ok
    /\ InSink(i) /\ InSink(j)
    /\ good_proxies_count = 2

\* C14: when the append of a passed proxy fails, the failure is reported and
\* the step that fails leaves the lock free, the export file and good_count
\* unchanged and every other invocation where it was; from then on the
\* address is not in the file, good_count does not count the proxy, the
\* proxy does not hold the lock outside the counting section, its diagnostic
\* line is the pass line, and it is counted in checked_count when it returns.
C14_WriteFailureContained ==
  /\ [](\A i \in write_reports :
          /\ Qualifies(i)
          /\ ~InSink(i)
          /\ good_proxies_count <= Cardinality({j \in Invocations \ {i} : InSink(j)})
          /\ pc[i] \in AfterExport
          /\ pc[i] \in {"log", "acquire_c", "done"} => lock # i
          /\ Len(diag[i]) = 1 => diag[i][1].color = "GREEN" /\ Aggregated(i)
          /\ pc[i] = "done" => (Len(diag[i]) = 1 /\ i \in CountedValid
                                  /\ checked_count = Cardinality(CountedValid)))
  /\ [][\A i \in Invocations :
          (pc[i] = "append" /\ pc'[i] # "append" /\ ~InSink(i)') =>
            /\ i \in write_reports'
            /\ lock' = 0
            /\ sink' = sink
            /\ good_proxies_count' = good_proxies_count
            /\ checked_count' = checked_count
            /\ \A j \in Invocations \ {i} : pc'[j] = pc[j] /\ frame'[j] = frame[j]]_vars

\* C14 witness: the pool has drained; the append of one passed proxy failed
\* while another proxy, which waited for the lock meanwhile, was exported.
C14_Witness ==
  /\ Drained
  /\ checked_count = 2
  /\ good_proxies_count = 1
  /\ \E i, j \in Invocations :
       /\ i \in write_reports
       /\ diag[i][1].color = "GREEN"
       /\ ~InSink(i)
       /\ InSink(j)

\* an exception no inner handler names was raised in invocation i: the handler
\* of lines 301-305 found no message set
Unexpected(i) ==
  \/ pc[i] = "log" /\ frame[i].result_message.reason = "unexpected"
  \/ Len(diag[i]) = 1 /\ diag[i][1].message.reason = "unexpected"

\* C15: an unexpected exception raised in the stages of an invocation (from
\* the anonymity probe to the export) is caught inside it: the step that
\* raises changes nothing shared and no other invocation; the proxy is
\* logged as failed, is never in the export file nor counted in good_count,
\* and is counted in checked_count exactly once, when it returns; every
\* invocation with a well-formed address that has returned has printed its
\* line and been counted.  (The console output of the finally block is taken
\* not to fail.)
C15_UnexpectedCaught ==
  /\ [](\A i \in Invocations :
          /\ Unexpected(i) =>
               /\ pc[i] \in {"log", "acquire_c", "checked_read", "checked_write", "done"}
               /\ ~InSink(i)
               /\ i \notin write_reports
               /\ good_proxies_count <= Cardinality({j \in Invocations \ {i} : InSink(j)})
               /\ Len(diag[i]) = 1 => diag[i][1].color = "RED"
          /\ (pc[i] = "done" /\ ~Malformed(proxy_str(i))) => Len(diag[i]) = 1)
  /\ [](checked_count = Cardinality(CountedValid))
  /\ [][\A i \in Invocations :
          /\ (~Unexpected(i) /\ Unexpected(i)') =>
               /\ UNCHANGED <<shared_vars, config, main_vars, out_vars>>
               /\ \A j \in Invocations \ {i} :
                    pc'[j] = pc[j] /\ frame'[j] = frame[j] /\ probes'[j] = probes[j]
          /\ (Unexpected(i) /\ pc[i] # "done" /\ pc'[i] = "done") =>
               checked_count' = checked_count + 1
          /\ (Unexpected(i) /\ pc[i] = "done") => checked_count' >= checked_count]_vars

\* C15 witness: the pool has drained; one proxy raised an unexpected
\* exception and is logged as failed and counted, another one was exported.
C15_Witness ==
  /\ Drained
  /\ checked_count = 2
  /\ good_proxies_count = 1
  /\ \E i, j \in Invocations :
       /\ Unexpected(i)
       /\ pc[i] = "done"
       /\ diag[i][1].color = "RED"
       /\ InSink(j)

\* C16: a missing ping tool is reported at most once in a run, for every
\* worker count and interleaving.
C16_PingMissingReportedOnce == ping_reports <= 1

\* C17: the total of the run does not count the proxies with a malformed
\* address: once the list is loaded proxies_length is the number of
\* dispatched proxies with a well-formed address, every published snapshot
\* carries that total, and checked_count equals the total once the pool has
\* drained.
C17_TotalExcludesMalformed ==
  /\ main_pc \in {"prepare", "submit", "summary", "done"} =>
       proxies_length = Cardinality({i \in Invocations : ~Malformed(proxy_str(i))})
  /\ title # NoTitle =>
       title.total = Cardinality({i \in Invocations : ~Malformed(proxy_str(i))})
  /\ Drained => checked_count = proxies_length

\* the stages of check_proxy in the order of the source
StageRank(at) ==
  CASE at = "pending" -> 0
    [] at = "format" -> 1
    [] at = "anon" -> 2
    [] at = "latency" -> 3
    [] at = "ping" -> 4
    [] at = "speed" -> 5
    [] at = "aggregate" -> 6
    [] at \in {"acquire_w", "append", "good_read", "good_write"} -> 7
    [] at = "log" -> 8
    [] at \in {"acquire_c", "checked_read", "checked_write"} -> 9
    [] at = "done" -> 10

\* the place of a probe in the order of the probes
ProbeRank(name) ==
  CASE name = "anon" -> 1 [] name = "latency" -> 2 [] name = "ping" -> 3 [] name = "speed" -> 4

\* the latency probe of invocation i succeeded
LatencyOk(i) ==
  \E k \in 1..Len(probes[i]) : probes[i][k].probe = "latency" /\ probes[i][k].ok

\* C18: an invocation goes through its stages in the order format check,
\* anonymity, latency, ping, throughput, aggregation, export, log, count and
\* never back; its probes are issued in that order, each at most once; past
\* the anonymity stage an invocation that passed the format check has issued
\* the anonymity probe exactly when its host is not a private address; no latency probe follows a failed anonymity
\* probe; ping and throughput probes are issued only after a successful
\* latency probe; and an invocation at or past the export has all its probes
\* behind it: the latency probe succeeded, the throughput probe was issued if
\* enabled, the ping probe was issued if ping is still enabled, and no probe
\* is issued any more.
C18_StagesOrdered ==
  /\ [](\A i \in Invocations :
          /\ \A a, b \in 1..Len(probes[i]) :
               a < b => ProbeRank(probes[i][a].probe) < ProbeRank(probes[i][b].probe)
          /\ (StageRank(pc[i]) \in 3..9 \/ (pc[i] = "done" /\ ~Malformed(proxy_str(i)))) =>
               (Attempted(i, "anon") <=> split_host(proxy_str(i)) \notin PrivateHosts)
          /\ StageRank(pc[i]) <= 2 => probes[i] = <<>>
          /\ AnonFailed(i) => ~Attempted(i, "latency")
          /\ (Attempted(i, "ping") \/ Attempted(i, "speed")) => LatencyOk(i)
          /\ (pc[i] = "aggregate" \/ StageRank(pc[i]) = 7 \/ InSink(i)) =>
               /\ LatencyOk(i)
               /\ config.enable_speed_test => Attempted(i, "speed")
               /\ config.enable_ping => Attempted(i, "ping"))
  /\ [][\A i \in Invocations :
          /\ pc'[i] # pc[i] => StageRank(pc'[i]) >= StageRank(pc[i])
          /\ StageRank(pc[i]) >= 6 => probes'[i] = probes[i]
          /\ probes'[i] # probes[i] =>
               /\ Len(probes'[i]) = Len(probes[i]) + 1
               /\ StageRank(pc[i]) = ProbeRank(probes'[i][Len(probes'[i])].probe) + 1
               /\ StageRank(pc'[i]) > StageRank(pc[i])]_vars

\* C18 witness: the pool has drained; one proxy went through all four probes
\* in order and is in the export file, a proxy with a private address
\* started with the latency probe, and it stopped there.
C18_Witness ==
  /\ Drained
  /\ \E i, j \in Invocations :
       /\ Len(probes[i]) = 4
       /\ probes[i][1].probe = "anon" /\ probes[i][4].probe = "speed"
       /\ InSink(i)
       /\ split_host(proxy_str(j)) \in PrivateHosts
       /\ probes[j] = <<Probe("latency", FALSE, None)>>
       /\ ~InSink(j)

\* positions of check_proxy inside the two with lock: blocks
LockedPositions == {"append", "good_read", "good_write", "checked_read", "checked_write"}

\* C19: an invocation holds the lock exactly while it is inside the export
\* section (append and increment of good_count) or the counting section
\* (increment of checked_count and title), so never in a probe, in the
\* aggregation or after a failed append; and every step of the pool that
\* changes checked_count, good_count, the title or the export file is taken
\* by the invocation that holds the lock.
C19_MutationsUnderLock ==
  /\ [](/\ lock \in {0} \cup Invocations
        /\ \A i \in Invocations : lock = i <=> pc[i] \in LockedPositions)
  /\ [][(\/ checked_count' # checked_count
         \/ good_proxies_count' # good_proxies_count
         \/ title' # title
         \/ (sink' # sink /\ main_pc # "prepare")) =>
          /\ lock \in Invocations
          /\ pc[lock] \in LockedPositions
          /\ pc'[lock] # pc[lock]
          /\ \A j \in Invocations \ {lock} : pc'[j] = pc[j]]_vars
  /\ [][\A i \in Invocations :
          (lock = i /\ lock' # i) => (lock' = 0 /\ pc'[i] \in {"log", "done"})]_vars

\* C19 witness: a proxy whose append failed has released the lock, taken it
\* again for the counting section and holds it while the other worker is in
\* a ping or throughput probe.
C19_Witness ==
  \E i, j \in Invocations :
    /\ i \in write_reports
    /\ lock = i
    /\ pc[i] = "checked_write"
    /\ pc[j] \in {"ping", "speed"}

\* C20: the configuration changes in one way only: a step that changes it is
\* the ping stage of an invocation on a system without the ping tool, it
\* turns enable_ping from TRUE to FALSE and leaves every other field; every
\* detection of the missing tool leaves the flag FALSE, also the second one
\* of two concurrent detections; the flag never goes back to TRUE; an
\* invocation enters its ping stage only while the flag is TRUE, and issues
\* a ping only from there.
C20_OnlyPingFlagChanges ==
  /\ [][config' # config =>
          /\ config.enable_ping /\ ~config'.enable_ping
          /\ config' = [config EXCEPT !.enable_ping = FALSE]
          /\ ~ping_installed
          /\ ping_reports' = ping_reports + 1
          /\ main_pc = "submit"]_vars
  /\ [][ping_reports' # ping_reports =>
          /\ ~config'.enable_ping
          /\ \E i \in Invocations :
               /\ pc[i] = "ping"
               /\ probes'[i] = Append(probes[i], Probe("ping", FALSE, None))]_vars
  /\ [][~config.enable_ping => ~config'.enable_ping]_vars
  /\ [][\A i \in Invocations :
          /\ (pc[i] # "ping" /\ pc'[i] = "ping") => config.enable_ping
          /\ (~Attempted(i, "ping") /\ Attempted(i, "ping")') => pc[i] = "ping"]_vars
  /\ [](\A i \in Invocations : pc[i] = "ping" => ~Attempted(i, "ping"))

\* C20 witness: the first proxy found the ping tool missing and the flag is
\* off; the next proxy reached its ping stage after that, issued no ping and
\* has been aggregated.
C20_Witness ==
  /\ ~config.enable_ping
  /\ ping_reports = 1
  /\ \E i, j \in Invocations :
       /\ Attempted(i, "ping")
       /\ LatencyOk(j)
       /\ ~Attempted(j, "ping")
       /\ Aggregated(j)

\* the lines this run has written to the export file: none before the run
\* has opened (truncated) it, every line of it afterwards
WrittenThisRun == IF SinkPrepared THEN LinesOf(sink) ELSE <<>>

\* C21: whenever no invocation holds the lock, good_count is the number of
\* lines this run has written to the export file; the append of a line and
\* the increment for it are one critical section: from the append to the
\* increment the invocation holds the lock and good_count is one behind, the
\* step that increments releases the lock, and a failed append changes
\* neither the file nor good_count.
C21_GoodCountIsLinesWritten ==
  /\ [](lock = 0 => good_proxies_count = Len(WrittenThisRun))
  /\ [](\A i \in Invocations :
          pc[i] \in {"good_read", "good_write"} =>
            (lock = i /\ good_proxies_count = Len(WrittenThisRun) - 1))
  /\ [](lock # 0 => good_proxies_count \in {Len(WrittenThisRun) - 1, Len(WrittenThisRun)})
  /\ [][good_proxies_count' # good_proxies_count =>
          /\ good_proxies_count' = good_proxies_count + 1
          /\ lock \in Invocations
          /\ lock' = 0
          /\ sink' = sink
          /\ InSink(lock)]_vars
  /\ [][(SinkPrepared /\ sink' # sink) =>
          /\ lock \in Invocations
          /\ lock' = lock
          /\ pc[lock] = "append"
          /\ sink' = sink \o Append(proxy_str(lock), NL)
          /\ good_proxies_count' = good_proxies_count]_vars
  /\ [][\A i \in Invocations :
          (i \notin write_reports /\ i \in write_reports') =>
            (sink' = sink /\ good_proxies_count' = good_proxies_count)]_vars

\* C21 witness: the pool has drained and the lock is free; two proxies
\* passed, the append of one failed, the file has one line and good_count
\* is 1.
C21_Witness ==
  /\ Drained
  /\ lock = 0
  /\ write_reports # {}
  /\ Len(WrittenThisRun) = 1
  /\ good_proxies_count = 1
  /\ checked_count = 2

====
